---- MODULE Spec2Model ----
(***************************************************************************)
(* The crossword CSP engine of generate.py (class CrosswordCreator):       *)
(* enforce_node_consistency, revise, ac3 and the backtracking search with  *)
(* its two heuristics, run by solve() on small crosswords.                 *)
(*                                                                         *)
(* A word is a sequence of letters.  A variable is a record                *)
(* [i, j, direction, length].  A domain is a sequence of words (the code   *)
(* keeps lists after node consistency; before it, the iteration order of   *)
(* the vocabulary set).  An assignment is a function from a subset of the  *)
(* variables to words.                                                     *)
(***************************************************************************)
EXTENDS Naturals, Integers, Sequences, FiniteSets, TLC

VARIABLES
    variables,   \* self.crossword.variables
    words,       \* self.crossword.words
    domains,     \* self.domains
    arcs,        \* the worklist of ac3
    assignment,  \* the dict handed down the backtrack recursion
    stack,       \* the active backtrack frames: [var, values still to try,
                 \* entry: the assignment as the call received it]
    pc,          \* where solve() is
    ac3result,   \* what ac3 returned (solve discards it)
    result,      \* what solve() returned
    pre,         \* the domains as ac3 (or a direct call of a method) found them
    call,        \* the last direct call of revise: <<x, y, what it returned>>
    keys,        \* a direct call of select_unassigned_variable: the domain
                 \* size and the degree of each unassigned variable
    chosen       \* and those of the variable it returned (a set of one)

vars == <<variables, words, domains, arcs, assignment, stack, pc, ac3result, result, pre, call, keys, chosen>>

----------------------------------------------------------------------------
(* Bounds and the finite universe of inputs *)

MaxVocab == 3

CAT == <<"C", "A", "T">>
COW == <<"C", "O", "W">>
DOG == <<"D", "O", "G">>
OCA == <<"O", "C", "A">>
TO == <<"T", "O">>

WordUniverse == {CAT, COW, DOG, OCA, TO}

Vocabularies == {ws \in SUBSET WordUniverse : Cardinality(ws) <= MaxVocab}

Var(i, j, direction, length) ==
    [i |-> i, j |-> j, direction |-> direction, length |-> length]

\* Scenario A/B: two slots of length 3 crossing in their first cell.
V1 == Var(0, 0, "across", 3)
V2 == Var(0, 0, "down", 3)
TwoSlot == {V1, V2}

\* Two slots of the same length that share no cell.
Parallel == {Var(0, 0, "across", 3), Var(2, 0, "across", 3)}

\* Two slots of different lengths that share no cell.
Apart == {Var(0, 0, "across", 3), Var(2, 0, "across", 2)}

\* An H: two down slots joined by an across slot through their middles.
HShape == {Var(0, 0, "down", 3), Var(1, 0, "across", 3), Var(0, 2, "down", 3)}

Puzzles == {TwoSlot, Parallel, Apart, HShape}

----------------------------------------------------------------------------
(* Helpers *)

Range(s) == {s[k] : k \in DOMAIN s}

\* Every order in which a set can be iterated.
Perms(S) ==
    {s \in [1..Cardinality(S) -> S] : \A a, b \in 1..Cardinality(S) : a # b => s[a] # s[b]}

RECURSIVE Concat(_)
Concat(ss) == IF ss = <<>> THEN <<>> ELSE Head(ss) \o Concat(Tail(ss))

\* Python's word[k], k counted from 0.
Letter(word, k) == word[k + 1]

None == <<>>

EmptyAssignment == [v \in {} |-> <<>>]

----------------------------------------------------------------------------
(* The constraint graph (crossword.py) *)

Cells(v) ==
    [k \in 1..v.length |->
        <<v.i + (IF v.direction = "down" THEN k - 1 ELSE 0),
          v.j + (IF v.direction = "across" THEN k - 1 ELSE 0)>>]

Overlap(x, y) ==
    LET common == Range(Cells(x)) \cap Range(Cells(y))
    IN  IF common = {} THEN None
        ELSE LET c == CHOOSE c \in common : TRUE
             IN  <<(CHOOSE k \in DOMAIN Cells(x) : Cells(x)[k] = c) - 1,
                   (CHOOSE k \in DOMAIN Cells(y) : Cells(y)[k] = c) - 1>>

Neighbors(var) == {v \in variables \ {var} : Overlap(v, var) # None}

----------------------------------------------------------------------------
(* __init__ *)

Init ==
    /\ variables \in Puzzles
    /\ words \in Vocabularies
    /\ \E ord \in Perms(words) : domains = [v \in variables |-> ord]
    /\ arcs = <<>>
    /\ assignment = EmptyAssignment
    /\ stack = <<>>
    /\ pc = "node"
    /\ ac3result = "pending"
    /\ result = [kind |-> "pending", value |-> EmptyAssignment]
    /\ pre = domains
    /\ call = <<>>
    /\ keys = {}
    /\ chosen = {}

(* enforce_node_consistency *)

\* The mutant: words are removed from the list while it is iterated, so the
\* word after a removed one is skipped.
RECURSIVE RemoveWhileIterating(_, _, _)
RemoveWhileIterating(var, domain, k) ==
    IF k > Len(domain) THEN domain
    ELSE IF Len(domain[k]) # var.length
         THEN RemoveWhileIterating(var,
                  SubSeq(domain, 1, k - 1) \o SubSeq(domain, k + 1, Len(domain)), k + 1)
         ELSE RemoveWhileIterating(var, domain, k + 1)

NodeConsistentInPlace(var, domain) == RemoveWhileIterating(var, domain, 1)

\* The words of a domain that have the variable's length, in their order.
NodeConsistent(var, domain) == SelectSeq(domain, LAMBDA word : Len(word) = var.length)

EnforceNodeConsistency ==
    /\ pc = "node"
    /\ domains' = [v \in variables |-> NodeConsistent(v, domains[v])]
    /\ pc' = "ac3"
    /\ UNCHANGED <<keys, chosen, call, variables, words, arcs, assignment, stack, ac3result, result, pre>>

----------------------------------------------------------------------------
(* revise *)

\* The mutant: the two offsets of the overlap are used the wrong way round.
ReviseSwapped(x, y) ==
    LET intersection == Overlap(x, y)
    IN  IF intersection # None
        THEN SelectSeq(domains[x], LAMBDA x_word :
                 \E k \in DOMAIN domains[y] :
                     Letter(x_word, intersection[2]) = Letter(domains[y][k], intersection[1]))
        ELSE domains[x]

\* The mutant: a word does not count as its own partner.
ReviseOtherWord(x, y) ==
    LET intersection == Overlap(x, y)
    IN  IF intersection # None
        THEN SelectSeq(domains[x], LAMBDA x_word :
                 \E k \in DOMAIN domains[y] :
                     /\ x_word # domains[y][k]
                     /\ Letter(x_word, intersection[1]) = Letter(domains[y][k], intersection[2]))
        ELSE domains[x]

\* The mutant: the inner loop has no break, so x_word is kept once for
\* every partner it has.
ReviseNoBreak(x, y) ==
    LET intersection == Overlap(x, y)
    IN  IF intersection # None
        THEN Concat([i \in DOMAIN domains[x] |->
                 LET partners == {k \in DOMAIN domains[y] :
                         Letter(domains[x][i], intersection[1]) =
                             Letter(domains[y][k], intersection[2])}
                 IN  [m \in 1..Cardinality(partners) |-> domains[x][i]]])
        ELSE domains[x]

\* The list `keep` that revise(x, y) stores in self.domains[x]; with no
\* overlap the domain is left as it is.
Revise(x, y) ==
    LET intersection == Overlap(x, y)
    IN  IF intersection # None
        THEN SelectSeq(domains[x], LAMBDA x_word :
                 \E k \in DOMAIN domains[y] :
                     Letter(x_word, intersection[1]) = Letter(domains[y][k], intersection[2]))
        ELSE domains[x]

\* The mutant: revise always reports a revision.
RevisedAlways(x, y) == TRUE

\* What revise(x, y) returns: whether the number of words changed.
Revised(x, y) == Len(Revise(x, y)) # Len(domains[x])

----------------------------------------------------------------------------
(* ac3 *)

NeighborOrders ==
    {f \in [variables -> UNION {Perms(Neighbors(v)) : v \in variables}] :
        \A v \in variables : f[v] \in Perms(Neighbors(v))}

\* The initial worklist: for v1 in self.domains, for v2 in neighbors(v1),
\* in whatever order the dict and the sets iterate.
InitialArcs ==
    {Concat([k \in 1..Len(vo) |->
                [m \in 1..Len(no[vo[k]]) |-> <<vo[k], no[vo[k]][m]>>]]) :
        vo \in Perms(variables), no \in NeighborOrders}

AC3Init ==
    /\ pc = "ac3"
    /\ arcs' \in InitialArcs
    /\ pre' = domains
    /\ pc' = "ac3loop"
    /\ UNCHANGED <<keys, chosen, call, variables, words, domains, assignment, stack, ac3result, result>>

\* The mutant: nothing is put back on the worklist.
RequeueNothing(x, y) == {}

\* The neighbours z of x whose arcs (z, x) go back on the worklist.
Requeue(x, y) == Neighbors(x) \ {y}

\* One turn of the while loop: pop the last arc and revise it.
AC3Revise ==
    /\ pc = "ac3loop"
    /\ Len(arcs) > 0
    /\ LET x == arcs[Len(arcs)][1]
           y == arcs[Len(arcs)][2]
           rest == SubSeq(arcs, 1, Len(arcs) - 1)
       IN  /\ domains' = [domains EXCEPT ![x] = Revise(x, y)]
           /\ \/ /\ ~Revised(x, y)
                 /\ arcs' = rest
                 /\ UNCHANGED <<pc, ac3result>>
              \/ /\ Revised(x, y)
                 /\ Len(domains'[x]) = 0
                 /\ arcs' = <<>>
                 /\ ac3result' = "False"
                 /\ pc' = "search"
              \/ /\ Revised(x, y)
                 /\ Len(domains'[x]) # 0
                 /\ \E zs \in Perms(Requeue(x, y)) :
                        arcs' = rest \o [k \in 1..Len(zs) |-> <<zs[k], x>>]
                 /\ UNCHANGED <<pc, ac3result>>
    /\ UNCHANGED <<keys, chosen, call, variables, words, assignment, stack, result, pre>>

\* The worklist is empty: ac3 returns True.
AC3Return ==
    /\ pc = "ac3loop"
    /\ Len(arcs) = 0
    /\ ac3result' = "True"
    /\ pc' = "search"
    /\ UNCHANGED <<keys, chosen, call, variables, words, domains, arcs, assignment, stack, result, pre>>

----------------------------------------------------------------------------
(* assignment_complete, consistent *)

\* The mutant: one assigned variable is enough.
AssignmentCompleteAny(a) == \E var \in variables : var \in DOMAIN a

AssignmentComplete(a) == \A var \in variables : var \in DOMAIN a

\* The mutant: equal words are looked for among neighbours only.
ConsistentNeighborsOnly(a) ==
    \A v1 \in DOMAIN a :
        /\ Len(a[v1]) = v1.length
        /\ \A v2 \in DOMAIN a \ {v1} :
               LET intersection == Overlap(v1, v2)
               IN  intersection # None =>
                       /\ a[v1] # a[v2]
                       /\ Letter(a[v1], intersection[1]) = Letter(a[v2], intersection[2])

\* The mutant: equal words are not looked for.
ConsistentNoDistinct(a) ==
    \A v1 \in DOMAIN a :
        /\ Len(a[v1]) = v1.length
        /\ \A v2 \in DOMAIN a \ {v1} :
               LET intersection == Overlap(v1, v2)
               IN  intersection # None =>
                       Letter(a[v1], intersection[1]) = Letter(a[v2], intersection[2])

\* The mutant: the letters at the overlap are not compared.
ConsistentNoOverlap(a) ==
    \A v1 \in DOMAIN a :
        /\ Len(a[v1]) = v1.length
        /\ \A v2 \in DOMAIN a \ {v1} : a[v1] # a[v2]

\* The mutant: both words are read at the first word's offset.
ConsistentSameOffset(a) ==
    \A v1 \in DOMAIN a :
        /\ Len(a[v1]) = v1.length
        /\ \A v2 \in DOMAIN a \ {v1} :
               /\ a[v1] # a[v2]
               /\ LET intersection == Overlap(v1, v2)
                  IN  intersection # None =>
                          Letter(a[v1], intersection[1]) = Letter(a[v2], intersection[1])

Consistent(a) ==
    \A v1 \in DOMAIN a :
        /\ Len(a[v1]) = v1.length
        /\ \A v2 \in DOMAIN a \ {v1} :
               /\ a[v1] # a[v2]
               /\ LET intersection == Overlap(v1, v2)
                  IN  intersection # None =>
                          Letter(a[v1], intersection[1]) = Letter(a[v2], intersection[2])

----------------------------------------------------------------------------
(* order_domain_values, count_removed_in_neighbors *)

RECURSIVE SumOver(_, _)
SumOver(S, f) ==
    IF S = {} THEN 0
    ELSE LET e == CHOOSE e \in S : TRUE IN f[e] + SumOver(S \ {e}, f)

CountRemovedInNeighbors(var, word, neighbors) ==
    SumOver(neighbors,
        [neighbor \in neighbors |->
            LET intersection == Overlap(var, neighbor)
            IN  Cardinality({k \in DOMAIN domains[neighbor] :
                    \/ word = domains[neighbor][k]
                    \/ Letter(word, intersection[1]) #
                           Letter(domains[neighbor][k], intersection[2])})])

\* Python's sorted(): ascending by key, equal keys keep their order.
RECURSIVE Sorted(_, _)
Sorted(seq, key) ==
    IF seq = <<>> THEN <<>>
    ELSE LET front == Sorted(SubSeq(seq, 1, Len(seq) - 1), key)
             last == seq[Len(seq)]
             n == Cardinality({k \in DOMAIN front : key[front[k]] <= key[last]})
         IN  SubSeq(front, 1, n) \o <<last>> \o SubSeq(front, n + 1, Len(front))

\* (not the source) the domain as it stands, unsorted.
OrderDomainValuesUnsorted(var, a) == domains[var]

\* (not the source) the assigned neighbours counted with the others.
OrderDomainValuesAllNeighbors(var, a) ==
    Sorted(domains[var],
           [word \in Range(domains[var]) |->
               CountRemovedInNeighbors(var, word, Neighbors(var))])

OrderDomainValues(var, a) ==
    LET neighbors == Neighbors(var) \ DOMAIN a
    IN  Sorted(domains[var],
               [word \in Range(domains[var]) |->
                   CountRemovedInNeighbors(var, word, neighbors)])

----------------------------------------------------------------------------
(* select_unassigned_variable *)

DegreeScale == 1000

\* The mutant: the size of the domain is left out of the key.
SortKeyDegreeOnly(v) == DegreeScale - Cardinality(Neighbors(v))

\* The mutant: the degree is left out of the key.
SortKeyNoDegree(v) == Len(domains[v]) * DegreeScale

\* The sort key len(domain) - degree * 0.001, in thousandths.  Two keys
\* that are equal here can differ in the last bit as floats; either of two
\* such variables may then come first, as the selection below allows.
SortKeyOf(size, degree) == size * DegreeScale - degree

SortKey(v) == SortKeyOf(Len(domains[v]), Cardinality(Neighbors(v)))

\* The mutant: the largest key is taken.
SelectLargest(a) ==
    LET unassigned == variables \ DOMAIN a
    IN  {v \in unassigned : \A u \in unassigned : SortKey(v) >= SortKey(u)}

\* The variables that can come first when the unassigned ones are sorted:
\* the set is listed in any order and the sort keeps the order of equal keys.
SelectUnassignedVariable(a) ==
    LET unassigned == variables \ DOMAIN a
    IN  {v \in unassigned : \A u \in unassigned : SortKey(v) <= SortKey(u)}

----------------------------------------------------------------------------
(* backtrack *)

Bind(a, var, value) == [v \in DOMAIN a \cup {var} |-> IF v = var THEN value ELSE a[v]]

\* The mutant: the binding is left in the dict.
UnbindNothing(a, var) == a

Unbind(a, var) == [v \in DOMAIN a \ {var} |-> a[v]]

\* A call of backtrack(assignment): return the assignment if it is complete
\* (every caller then returns it at once), else choose the variable and list
\* its values.
BacktrackCall ==
    /\ pc = "search"
    /\ \/ /\ AssignmentComplete(assignment)
          /\ result' = [kind |-> "assignment", value |-> assignment]
          /\ stack' = <<>>
          /\ pc' = "done"
       \/ /\ ~AssignmentComplete(assignment)
          /\ \E var \in SelectUnassignedVariable(assignment) :
                 stack' = Append(stack,
                     [var |-> var, values |-> OrderDomainValues(var, assignment),
                      entry |-> assignment])
          /\ pc' = "loop"
          /\ UNCHANGED result
    /\ UNCHANGED <<keys, chosen, call, variables, words, domains, arcs, assignment, ac3result, pre>>

\* One turn of the for loop: bind the next value; recurse if the assignment
\* is consistent, else unbind.
BacktrackTry ==
    /\ pc = "loop"
    /\ stack[Len(stack)].values # <<>>
    /\ LET frame == stack[Len(stack)]
           value == Head(frame.values)
           bound == Bind(assignment, frame.var, value)
       IN  /\ stack' = [stack EXCEPT ![Len(stack)].values = Tail(frame.values)]
           /\ \/ /\ Consistent(bound)
                 /\ assignment' = bound
                 /\ pc' = "search"
              \/ /\ ~Consistent(bound)
                 /\ assignment' = Unbind(bound, frame.var)
                 /\ pc' = "loop"
    /\ UNCHANGED <<keys, chosen, call, variables, words, domains, arcs, ac3result, result, pre>>

\* The for loop is over: return None.  The caller, if any, unbinds its own
\* variable and goes on with its loop; solve() returns None otherwise.
BacktrackFail ==
    /\ pc = "loop"
    /\ stack[Len(stack)].values = <<>>
    /\ stack' = SubSeq(stack, 1, Len(stack) - 1)
    /\ \/ /\ Len(stack) = 1
          /\ result' = [kind |-> "None", value |-> EmptyAssignment]
          /\ pc' = "done"
          /\ UNCHANGED assignment
       \/ /\ Len(stack) > 1
          /\ assignment' = Unbind(assignment, stack[Len(stack) - 1].var)
          /\ pc' = "loop"
          /\ UNCHANGED result
    /\ UNCHANGED <<keys, chosen, call, variables, words, domains, arcs, ac3result, pre>>

----------------------------------------------------------------------------
(* solve *)

Next ==
    \/ EnforceNodeConsistency
    \/ AC3Init
    \/ AC3Revise
    \/ AC3Return
    \/ BacktrackCall
    \/ BacktrackTry
    \/ BacktrackFail

Spec == Init /\ [][Next]_vars

\* solve() runs on: a step that can be taken is taken.
SpecLive == Init /\ [][Next]_vars /\ WF_vars(Next)

\* One listing of a set and the listing in the opposite order.
TwoOrders(S) ==
    LET ord == CHOOSE ord \in Perms(S) : TRUE
    IN  {ord, [k \in 1..Len(ord) |-> ord[Len(ord) + 1 - k]]}

\* backtrack started on its own, from any node-consistent domains: every
\* variable keeps some of the vocabulary words of its length, in vocabulary order.
InitSearch ==
    /\ variables \in Puzzles
    /\ words \in Vocabularies
    /\ \E ord \in TwoOrders(words) :
           \E kept \in [variables -> SUBSET words] :
               domains = [v \in variables |->
                   SelectSeq(ord, LAMBDA word : word \in kept[v] /\ Len(word) = v.length)]
    /\ arcs = <<>>
    /\ assignment = EmptyAssignment
    /\ stack = <<>>
    /\ pc = "search"
    /\ ac3result = "pending"
    /\ result = [kind |-> "pending", value |-> EmptyAssignment]
    /\ pre = domains
    /\ call = <<>>
    /\ keys = {}
    /\ chosen = {}

NextSearch ==
    \/ BacktrackCall
    \/ BacktrackTry
    \/ BacktrackFail

SpecSearch == InitSearch /\ [][NextSearch]_vars

\* enforce_node_consistency called twice in a row, on any domains: every
\* variable has some of the vocabulary words, of whatever length.
InitNode ==
    /\ variables \in Puzzles
    /\ words \in Vocabularies
    /\ \E ord \in TwoOrders(words) :
           \E kept \in [variables -> SUBSET words] :
               domains = [v \in variables |->
                   SelectSeq(ord, LAMBDA word : word \in kept[v])]
    /\ arcs = <<>>
    /\ assignment = EmptyAssignment
    /\ stack = <<>>
    /\ pc = "node"
    /\ ac3result = "pending"
    /\ result = [kind |-> "pending", value |-> EmptyAssignment]
    /\ pre = domains
    /\ call = <<>>
    /\ keys = {}
    /\ chosen = {}

\* The second call of enforce_node_consistency.
EnforceNodeConsistencyAgain ==
    /\ pc = "ac3"
    /\ domains' = [v \in variables |-> NodeConsistent(v, domains[v])]
    /\ pc' = "node twice"
    /\ UNCHANGED <<keys, chosen, call, variables, words, arcs, assignment, stack, ac3result, result, pre>>

NextNode ==
    \/ EnforceNodeConsistency
    \/ EnforceNodeConsistencyAgain

SpecNode == InitNode /\ [][NextNode]_vars

\* One turn of ac3's while loop with any arc of the worklist taken out, not
\* only the last one: the loop under every worklist discipline.
AC3ReviseAny ==
    /\ pc = "ac3loop"
    /\ Len(arcs) > 0
    /\ \E i \in DOMAIN arcs :
           LET x == arcs[i][1]
               y == arcs[i][2]
               rest == SubSeq(arcs, 1, i - 1) \o SubSeq(arcs, i + 1, Len(arcs))
           IN  /\ domains' = [domains EXCEPT ![x] = Revise(x, y)]
               /\ \/ /\ ~Revised(x, y)
                     /\ arcs' = rest
                     /\ UNCHANGED <<pc, ac3result>>
                  \/ /\ Revised(x, y)
                     /\ Len(domains'[x]) = 0
                     /\ arcs' = <<>>
                     /\ ac3result' = "False"
                     /\ pc' = "search"
                  \/ /\ Revised(x, y)
                     /\ Len(domains'[x]) # 0
                     /\ \E zs \in Perms(Requeue(x, y)) :
                            arcs' = rest \o [k \in 1..Len(zs) |-> <<zs[k], x>>]
                     /\ UNCHANGED <<pc, ac3result>>
    /\ UNCHANGED <<keys, chosen, call, variables, words, assignment, stack, result, pre>>

\* Node consistency and then ac3, the worklist served in any order.
NextAnyOrder ==
    \/ EnforceNodeConsistency
    \/ AC3Init
    \/ AC3ReviseAny
    \/ AC3Return

SpecAnyOrder == Init /\ [][NextAnyOrder]_vars

\* revise called on its own, again and again, on any two different
\* variables, from any node-consistent domains.
InitRevise ==
    /\ variables \in Puzzles
    /\ words \in Vocabularies
    /\ \E ord \in TwoOrders(words) :
           \E kept \in [variables -> SUBSET words] :
               domains = [v \in variables |->
                   SelectSeq(ord, LAMBDA word : word \in kept[v] /\ Len(word) = v.length)]
    /\ arcs = <<>>
    /\ assignment = EmptyAssignment
    /\ stack = <<>>
    /\ pc = "revise"
    /\ ac3result = "pending"
    /\ result = [kind |-> "pending", value |-> EmptyAssignment]
    /\ pre = domains
    /\ call = <<>>
    /\ keys = {}
    /\ chosen = {}

ReviseCall ==
    /\ pc = "revise"
    /\ \E x, y \in variables :
           /\ x # y
           /\ domains' = [domains EXCEPT ![x] = Revise(x, y)]
           /\ call' = <<x, y, Revised(x, y)>>
    /\ pre' = domains
    /\ UNCHANGED <<keys, chosen, variables, words, arcs, assignment, stack, pc, ac3result, result>>

NextRevise == ReviseCall

SpecRevise == InitRevise /\ [][NextRevise]_vars

\* The numbers of neighbours a variable may have: a slot has at most one
\* neighbour per cell, and a grid may be of any width.
Degrees == {0, 1, 2, 1001}

\* select_unassigned_variable called on its own.  It reads nothing of an
\* unassigned variable but the size of its domain and its degree, so the
\* unassigned variables are given by these two numbers.
InitSelect ==
    /\ variables = {}
    /\ words = {}
    /\ domains = <<>>
    /\ arcs = <<>>
    /\ assignment = EmptyAssignment
    /\ stack = <<>>
    /\ pc = "select"
    /\ ac3result = "pending"
    /\ result = [kind |-> "pending", value |-> EmptyAssignment]
    /\ pre = domains
    /\ call = <<>>
    /\ keys \in {ks \in SUBSET [size : 0..MaxVocab, degree : Degrees] :
                    Cardinality(ks) \in {1, 2}}
    /\ chosen = {}

\* unassigned.sort(key=...); return unassigned[0]
SelectCall ==
    /\ pc = "select"
    /\ \E var \in keys :
           /\ \A u \in keys :
                  SortKeyOf(var.size, var.degree) <= SortKeyOf(u.size, u.degree)
           /\ chosen' = {var}
    /\ pc' = "selected"
    /\ UNCHANGED <<keys, variables, words, domains, arcs, assignment, stack,
                   ac3result, result, pre, call>>

NextSelect == SelectCall

SpecSelect == InitSelect /\ [][NextSelect]_vars

----------------------------------------------------------------------------
(* What the claims speak of *)

\* a gives every variable a word of its length, all words distinct, with
\* every overlapping pair agreeing at its overlap offsets.
IsSolution(a) ==
    /\ DOMAIN a = variables
    /\ \A v \in variables : Len(a[v]) = v.length
    /\ \A x, y \in variables : x # y => a[x] # a[y]
    /\ \A x, y \in variables :
           (x # y /\ Overlap(x, y) # None) =>
               a[x][Overlap(x, y)[1] + 1] = a[y][Overlap(x, y)[2] + 1]

\* The complete consistent assignments over the vocabulary.
Solutions == {a \in [variables -> words] : IsSolution(a)}

\* The complete consistent assignments that take each word from d.
SolutionsFrom(d) == {a \in Solutions : \A v \in variables : a[v] \in Range(d[v])}

Returned == pc = "done" /\ result.kind = "assignment"

AC3Returned == ac3result # "pending"

ScenarioA == variables = TwoSlot /\ words = {CAT, COW, DOG}

ScenarioB == variables = TwoSlot /\ words = {CAT, DOG}

----------------------------------------------------------------------------
(* C1: solve() returns None if and only if no complete consistent          *)
(* assignment over the vocabulary exists; otherwise it returns an          *)
(* assignment.                                                             *)
C1_SolveFailsIffNoSolution ==
    pc = "done" =>
        IF Solutions = {} THEN result.kind = "None" ELSE result.kind = "assignment"

\* The search, not the propagation, found that there is no solution.
C1_Witness ==
    /\ pc = "done"
    /\ result.kind = "None"
    /\ ac3result = "True"
    /\ \A v \in variables : domains[v] # <<>>

C3_SearchComplete ==
    (pc = "done" /\ SolutionsFrom(domains) # {}) => result.kind = "assignment"

\* A solution was found although the value tried first for some variable is
\* not the one returned.
C3_Witness ==
    /\ Returned
    /\ variables = HShape
    /\ \E v \in variables : result.value[v] # Head(domains[v])

(* C4: in a returned assignment no two different variables have the same   *)
(* word, whether they overlap or not.                                      *)
C4_Distinct ==
    Returned =>
        \A x, y \in DOMAIN result.value : x # y => result.value[x] # result.value[y]

\* An assignment was returned for two slots that do not overlap.
C4_Witness ==
    /\ Returned
    /\ variables = Parallel
    /\ DOMAIN result.value = Parallel

(* C5: in a returned assignment every pair of variables with an overlap    *)
(* (ix, iy) has the same letter at offset ix of the one word and offset iy *)
(* of the other.                                                           *)
C5_OverlapsAgree ==
    Returned =>
        \A x, y \in DOMAIN result.value :
            (x # y /\ Overlap(x, y) # None) =>
                result.value[x][Overlap(x, y)[1] + 1] = result.value[y][Overlap(x, y)[2] + 1]

\* An assignment was returned for the H, whose overlaps are at different offsets.
C5_Witness ==
    /\ Returned
    /\ variables = HShape
    /\ DOMAIN result.value = HShape

(* C6, as claimed: in Scenario A both domains are {CAT, COW, DOG} after    *)
(* node consistency and exactly {CAT, COW} after ac3.                      *)
C6_ScenarioAPrunesDog ==
    ScenarioA =>
        /\ pc = "ac3" => \A v \in variables : Range(domains[v]) = {CAT, COW, DOG}
        /\ AC3Returned => \A v \in variables : Range(domains[v]) = {CAT, COW}

(* C6, amended: in Scenario A both domains are {CAT, COW, DOG} after node  *)
(* consistency and still {CAT, COW, DOG} after ac3, which returns True:    *)
(* DOG in the one domain has DOG in the other as its partner.              *)
C6_ScenarioAKeepsDog ==
    ScenarioA =>
        /\ pc = "ac3" => \A v \in variables : Range(domains[v]) = {CAT, COW, DOG}
        /\ AC3Returned =>
               /\ ac3result = "True"
               /\ \A v \in variables : Range(domains[v]) = {CAT, COW, DOG}

\* ac3 has just returned in Scenario A.
C6_Witness == ScenarioA /\ AC3Returned /\ pc = "search" /\ stack = <<>>

(* C7, as claimed: in Scenario B ac3 empties the domains of V1 and V2 and  *)
(* returns False.                                                          *)
C7_ScenarioBEmptied ==
    (ScenarioB /\ AC3Returned) =>
        /\ ac3result = "False"
        /\ domains[V1] = <<>>
        /\ domains[V2] = <<>>

(* C7, amended: in Scenario B ac3 removes nothing, both domains stay       *)
(* {CAT, DOG}, and it returns True.                                        *)
C7_ScenarioBUntouched ==
    (ScenarioB /\ AC3Returned) =>
        /\ ac3result = "True"
        /\ Range(domains[V1]) = {CAT, DOG}
        /\ Range(domains[V2]) = {CAT, DOG}

\* solve() has returned in Scenario B, after an ac3 that returned.
C7_Witness == ScenarioB /\ AC3Returned /\ pc = "done"

(* C8, as claimed: ac3 with the default worklist returns True if and only  *)
(* if no domain is empty when it returns.                                  *)
C8_TrueIffNoEmptyDomain ==
    AC3Returned => (ac3result = "True" <=> \A v \in variables : domains[v] # <<>>)

(* C9: after ac3 with the default worklist has returned True, every word   *)
(* of every domain(x) has, for every neighbour y of x, a word in domain(y) *)
(* with the same letter at the overlap offsets.                            *)
C9_ArcConsistent ==
    ac3result = "True" =>
        \A x \in variables : \A y \in Neighbors(x) : \A w \in Range(domains[x]) :
            \E w2 \in Range(domains[y]) :
                w[Overlap(x, y)[1] + 1] = w2[Overlap(x, y)[2] + 1]

\* ac3 returned True on the H after removing words from every domain.
C9_Witness ==
    /\ ac3result = "True"
    /\ variables = HShape
    /\ \A v \in variables : 0 < Len(domains[v]) /\ Len(domains[v]) < Len(pre[v])

(* C10: if ac3 returns False, no complete consistent assignment can be     *)
(* built from the domains it started with; and while it runs and after it, *)
(* every word that a complete consistent assignment built from those       *)
(* domains gives to a variable is still in that variable's domain.         *)
C10_PropagationSound ==
    /\ ac3result = "False" => SolutionsFrom(pre) = {}
    /\ pc \notin {"node", "ac3"} =>
           \A a \in SolutionsFrom(pre) : \A v \in variables : a[v] \in Range(domains[v])

\* ac3 returned False from domains that all had words.
C10_Witness ==
    /\ ac3result = "False"
    /\ \A v \in variables : pre[v] # <<>>

(* C11: a returned assignment binds every variable of the graph, and the  *)
(* word of each variable has the variable's length.                        *)
C11_CompleteAndLengthsFit ==
    Returned =>
        /\ DOMAIN result.value = variables
        /\ \A v \in variables : Len(result.value[v]) = v.length

\* An assignment was returned for slots of different lengths.
C11_Witness ==
    /\ Returned
    /\ variables = Apart
    /\ \E w \in words : Len(w) = 2
    /\ \E w \in words : Len(w) = 3

(* C12: no step of solve() adds a word to a domain or makes a domain       *)
(* longer, so every later domain is a subset of every earlier one; and the *)
(* steps of the search leave every domain as it is.                        *)
C12_DomainsOnlyShrink ==
    [][/\ \A v \in variables :
             /\ Range(domains'[v]) \subseteq Range(domains[v])
             /\ Len(domains'[v]) <= Len(domains[v])
       /\ pc \in {"search", "loop"} => domains' = domains]_vars

\* The search is over after node consistency and ac3 both removed words.
C12_Witness ==
    /\ pc = "done"
    /\ \E v \in variables : Len(pre[v]) < Cardinality(words)
    /\ \E v \in variables : Len(domains[v]) < Len(pre[v])

(* C13: enforce_node_consistency applied a second time, right after the   *)
(* first, leaves every domain exactly as the first application left it.    *)
C13_NodeConsistencyIdempotent ==
    [][(pc = "ac3" /\ pc' = "node twice") => domains' = domains]_vars

\* The filter ran twice and its first run had removed words.
C13_Witness ==
    /\ pc = "node twice"
    /\ \E v \in variables : Len(domains[v]) < Len(pre[v])
    /\ \E v \in variables : domains[v] # <<>>

(* C14: between the trials of a call of backtrack, and so when the call    *)
(* returns None, the assignment is exactly the one the call received; each *)
(* value is tried on top of exactly those bindings; and when solve()       *)
(* returns None the assignment is empty again.                             *)
C14_Rollback ==
    /\ pc = "loop" => assignment = stack[Len(stack)].entry
    /\ (pc = "search" /\ stack # <<>>) =>
           LET frame == stack[Len(stack)]
           IN  /\ frame.var \in DOMAIN assignment
               /\ frame.var \notin DOMAIN frame.entry
               /\ [v \in DOMAIN assignment \ {frame.var} |-> assignment[v]] = frame.entry
    /\ (pc = "done" /\ result.kind = "None") => assignment = EmptyAssignment

\* A nested call has tried every value of a non-empty domain and is about
\* to return None to a caller that has values left.
C14_Witness ==
    /\ pc = "loop"
    /\ Len(stack) >= 2
    /\ stack[Len(stack)].values = <<>>
    /\ domains[stack[Len(stack)].var] # <<>>
    /\ stack[Len(stack) - 1].values # <<>>

HasPartner(d, x, y, w) ==
    \E w2 \in Range(d[y]) : w[Overlap(x, y)[1] + 1] = w2[Overlap(x, y)[2] + 1]

\* Every domain at once loses its words that lack a partner in a neighbour.
Narrow(d) ==
    [x \in variables |->
        SelectSeq(d[x], LAMBDA w : \A y \in Neighbors(x) : HasPartner(d, x, y, w))]

\* The largest arc-consistent domains within d, reached by no worklist at all.
RECURSIVE ArcFixpoint(_)
ArcFixpoint(d) == IF Narrow(d) = d THEN d ELSE ArcFixpoint(Narrow(d))

(* C16: whatever the order in which arcs leave the worklist, ac3 started   *)
(* from the same domains with the full worklist ends the same way: it      *)
(* fails exactly when the largest arc-consistent domains within the        *)
(* starting ones empty a domain that had words, and when it succeeds the   *)
(* final domains are those largest arc-consistent domains.                 *)
C16_OrderIndependent ==
    AC3Returned =>
        LET fix == ArcFixpoint(pre)
        IN  /\ ac3result = "False" <=> \E v \in variables : pre[v] # <<>> /\ fix[v] = <<>>
            /\ ac3result = "True" => domains = fix

\* ac3 succeeded on the H after removing words.
C16_Witness ==
    /\ ac3result = "True"
    /\ pc = "search"
    /\ variables = HShape
    /\ \E v \in variables : 0 < Len(domains[v]) /\ Len(domains[v]) < Len(pre[v])

(* C17: revise(x, y) with an overlap leaves in domain(x) exactly the words *)
(* of the previous domain(x) that have a partner in domain(y), leaves the  *)
(* other domains alone, and returns True exactly when it removed a word;   *)
(* with no overlap it changes no domain and returns False.                 *)
C17_ReviseContract ==
    call # <<>> =>
        LET x == call[1]
            y == call[2]
            returned == call[3]
        IN  IF Overlap(x, y) # None
            THEN /\ Range(domains[x]) = {w \in Range(pre[x]) : HasPartner(pre, x, y, w)}
                 /\ \A v \in variables \ {x} : domains[v] = pre[v]
                 /\ returned <=> Range(domains[x]) # Range(pre[x])
            ELSE /\ domains = pre
                 /\ returned = FALSE

\* revise has just removed some words of a domain and kept others.
C17_Witness ==
    /\ call # <<>>
    /\ call[3] = TRUE
    /\ domains[call[1]] # <<>>
    /\ Overlap(call[1], call[2]) # None

\* revise has just been called on two variables that do not overlap.
C17_WitnessNoOverlap ==
    /\ call # <<>>
    /\ Overlap(call[1], call[2]) = None
    /\ domains[call[1]] # <<>>

(* C18: ac3 eventually returns, and a turn of its loop puts arcs back on   *)
(* the worklist only when it has made some domain strictly shorter.        *)
C18_AC3Terminates ==
    /\ <>AC3Returned
    /\ [][(pc = "ac3loop" /\ pc' = "ac3loop" /\ Len(arcs') >= Len(arcs)) =>
             \E v \in variables : Len(domains'[v]) < Len(domains[v])]_vars

\* ac3 is in its loop with arcs to serve after a domain has become shorter.
C18_Witness ==
    /\ pc = "ac3loop"
    /\ arcs # <<>>
    /\ variables = HShape
    /\ \E v \in variables : 0 < Len(domains[v]) /\ Len(domains[v]) < Len(pre[v])

(* C19, as claimed: whatever the unassigned variables, the one            *)
(* select_unassigned_variable returns has a domain of the smallest size    *)
(* among them, and among those of that size the most neighbours.           *)
C19_SmallestDomainThenDegree ==
    \A var \in chosen :
        /\ \A u \in keys : var.size <= u.size
        /\ \A u \in keys : u.size = var.size => var.degree >= u.degree

(* C19 on the grids of the search, where no variable has 1000 neighbours:  *)
(* the variable a call of backtrack selects is not in the assignment       *)
(* the call received, has a domain of the smallest size among the          *)
(* variables not in it, and among those of that size has the most          *)
(* neighbours.                                                             *)
C19_MRVThenDegree ==
    \A k \in DOMAIN stack :
        LET var == stack[k].var
            unassigned == variables \ DOMAIN stack[k].entry
        IN  /\ var \in unassigned
            /\ \A u \in unassigned : Len(domains[var]) <= Len(domains[u])
            /\ \A u \in unassigned :
                   Len(domains[u]) = Len(domains[var]) =>
                       Cardinality(Neighbors(var)) >= Cardinality(Neighbors(u))

\* The first selection on the H when all three domains have the same size:
\* the degree decides.
C19_Witness ==
    /\ variables = HShape
    /\ Len(stack) = 1
    /\ \A u \in variables :
           Len(domains[u]) > 0 /\ Len(domains[u]) = Len(domains[stack[1].var])

\* A selection decided by the sizes of the domains, against the degree.
C19_WitnessSize ==
    /\ variables = HShape
    /\ Len(stack) = 1
    /\ \E u \in variables :
           /\ Len(domains[u]) > Len(domains[stack[1].var])
           /\ Cardinality(Neighbors(u)) > Cardinality(Neighbors(stack[1].var))

(* C20: the values a call of backtrack lists for its variable are the      *)
(* words of the variable's domain, each as often as there, in              *)
(* non-decreasing order of the number of words w in the domains of the     *)
(* neighbours not yet assigned that equal the value or differ from it in   *)
(* the shared cell; the assigned neighbours are not counted.               *)
Ruled(var, word, a) ==
    {p \in UNION {{<<u, k>> : k \in DOMAIN domains[u]} :
                      u \in Neighbors(var) \ DOMAIN a} :
        LET w == domains[p[1]][p[2]]
            cell == Overlap(var, p[1])
        IN  w = word \/ word[cell[1] + 1] # w[cell[2] + 1]}

Occurrences(seq, e) == Cardinality({k \in DOMAIN seq : seq[k] = e})

C20_LeastConstrainingFirst ==
    [][Len(stack') = Len(stack) + 1 =>
          LET frame == stack'[Len(stack')]
              values == frame.values
          IN  /\ Len(values) = Len(domains[frame.var])
              /\ \A w \in Range(values) \cup Range(domains[frame.var]) :
                     Occurrences(values, w) = Occurrences(domains[frame.var], w)
              /\ \A i, j \in DOMAIN values :
                     i < j => Cardinality(Ruled(frame.var, values[i], assignment))
                                  <= Cardinality(Ruled(frame.var, values[j], assignment))]_vars

\* A call of backtrack that has just listed the values of a variable in an
\* order other than the domain's.
C20_Witness ==
    /\ pc = "loop"
    /\ LET frame == stack[Len(stack)]
       IN  /\ Len(frame.values) = Len(domains[frame.var])
           /\ frame.values # domains[frame.var]

\* The same, for a variable with a neighbour assigned and another not.
C20_WitnessAssignedNeighbor ==
    /\ C20_Witness
    /\ LET frame == stack[Len(stack)]
       IN  /\ Neighbors(frame.var) \cap DOMAIN frame.entry # {}
           /\ Neighbors(frame.var) \ DOMAIN frame.entry # {}

====
